---------------------------- MODULE Spec2Model ----------------------------
(***************************************************************************)
(* Model of the rule engine in src/Assignment-1RuleEngine-app.py: the AST  *)
(* Node class, the condition parser, create_rule, combine_rules,           *)
(* evaluate_rule and the two tree editors modify_node / add_sub_expression.*)
(*                                                                         *)
(* Strings.  A Python str is modelled as a sequence of atoms.  An atom is  *)
(* a single character (" ", ">", "<", "=", ".", "-", a digit) or a word of *)
(* \w characters taken as a unit ("age", "AND", ...).  The code inspects   *)
(* strings only through strip(), the substring tests / splits on " AND "   *)
(* and " OR ", the regular expression classes \w, \s, [<>=], \S, equality, *)
(* str() and float(); on atom sequences built from the atoms below each of *)
(* these gives the result it gives on the characters, because no           *)
(* concatenation of two or more word atoms spells "AND", "OR" or a catalog *)
(* attribute, and no word atom is accepted by float().                     *)
(*                                                                         *)
(* Objects.  Node objects live in a heap (a sequence of node records; the  *)
(* identity of a Node is its index).  Python values are tagged records.    *)
(***************************************************************************)
EXTENDS Integers, Sequences, FiniteSets, TLC

VARIABLES
    pc,           \* the calls the driver still has to make, in order
    rule_string,  \* argument of create_rule
    rules,        \* argument of combine_rules
    data,         \* argument of evaluate_rule (the user record)
    heap,         \* all Node objects constructed so far
    ast,          \* value returned by create_rule / combine_rules
    result,       \* value returned (or exception raised) by the last call
    stdout,       \* lines printed by the except handlers
    parts,        \* the pieces a comparison's rule string was written from
    call,         \* the last editor call with its arguments
    edits         \* number of editor calls made so far

vars == <<pc, rule_string, rules, data, heap, ast, result, stdout, parts, call, edits>>

(***************************************************************************)
(* Python values                                                           *)
(***************************************************************************)
None == [py |-> "None"]
PyStr(s) == [py |-> "str", v |-> s]
PyInt(n) == [py |-> "int", v |-> n]
PyBool(b) == [py |-> "bool", v |-> b]
PyTuple(t) == [py |-> "tuple", v |-> t]
Ref(i) == [py |-> "Node", v |-> i]
Raise(exc, msg, arg) == [py |-> "raise", exc |-> exc, msg |-> msg, arg |-> arg]

IsRaise(x) == x.py = "raise"
IsRef(x) == x.py = "Node"

\* Python truth value of an object (used by `if new_type:`).
Truthy(x) ==
    CASE x.py = "None" -> FALSE
      [] x.py = "str" -> x.v # <<>>
      [] x.py = "tuple" -> x.v # <<>>
      [] x.py = "int" -> x.v # 0
      [] x.py = "bool" -> x.v
      [] OTHER -> TRUE

(***************************************************************************)
(* Atoms and the character classes of the regular expressions              *)
(***************************************************************************)
SP == " "
Digits == <<"0", "1", "2", "3", "4", "5", "6", "7", "8", "9">>
DigitSet == {Digits[i] : i \in 1..10}
OpChars == {"<", ">", "="}
WordAtoms == {"age", "department", "salary", "experience", "unknown_field",
              "Sales", "abc", "AND", "OR"} \cup DigitSet

\* The character classes \s, \w, [<>=] and \S.
InClass(cls, a) ==
    CASE cls = "s" -> a = SP
      [] cls = "w" -> a \in WordAtoms
      [] cls = "op" -> a \in OpChars
      [] cls = "S" -> a # SP

AND_SEP == <<SP, "AND", SP>>
OR_SEP == <<SP, "OR", SP>>

\* Length of the longest run of atoms satisfying the class, starting at i.
RECURSIVE RunLen(_, _, _)
RunLen(s, i, cls) ==
    IF i <= Len(s) /\ InClass(cls, s[i]) THEN 1 + RunLen(s, i + 1, cls) ELSE 0

\* str.strip()
strip(s) ==
    LET lead == RunLen(s, 1, "s")
        rest == SubSeq(s, lead + 1, Len(s))
        keep == {k \in 0..Len(rest) : k = 0 \/ rest[k] # SP}
        last == CHOOSE k \in keep : \A j \in keep : j <= k
    IN  SubSeq(rest, 1, last)

\* `sep in s`
Contains(s, sep) ==
    \E i \in 1..Len(s) : i + Len(sep) - 1 <= Len(s) /\ SubSeq(s, i, i + Len(sep) - 1) = sep

\* s.split(sep, 1): the text before and after the first occurrence of sep
split1(s, sep) ==
    LET occ == {i \in 1..Len(s) :
                  i + Len(sep) - 1 <= Len(s) /\ SubSeq(s, i, i + Len(sep) - 1) = sep}
    IN  IF occ = {} THEN <<s>>
        ELSE LET i == CHOOSE k \in occ : \A j \in occ : k <= j
             IN  <<SubSeq(s, 1, i - 1), SubSeq(s, i + Len(sep), Len(s))>>

(***************************************************************************)
(* class Node                                                              *)
(***************************************************************************)
OPERATOR == PyStr(<<"operator">>)
OPERAND == PyStr(<<"operand">>)

\* Mutant of validate: an operator node is not required to have children.
validate_NoChildCheck(n) ==
    IF n.type \notin {OPERATOR, OPERAND}
    THEN Raise("ValueError", "Invalid node type", n.type)
    ELSE IF n.type = OPERAND /\ n.value = None
    THEN Raise("ValueError", "Operand nodes must have a value.", None)
    ELSE None

validate(n) ==
    IF n.type \notin {OPERATOR, OPERAND}
    THEN Raise("ValueError", "Invalid node type", n.type)
    ELSE IF n.type = OPERATOR /\ (n.left = None \/ n.right = None)
    THEN Raise("ValueError", "Operator nodes must have both left and right children.", None)
    ELSE IF n.type = OPERAND /\ n.value = None
    THEN Raise("ValueError", "Operand nodes must have a value.", None)
    ELSE None

\* Node(type, left, right, value): the new object is kept only when
\* __init__ returns; when validate raises, the half-built object is garbage.
Node(h, type, left, right, value) ==
    LET n == [type |-> type, left |-> left, right |-> right, value |-> value]
        e == validate(n)
    IN  IF IsRaise(e) THEN [heap |-> h, ret |-> e]
        ELSE [heap |-> Append(h, n), ret |-> Ref(Len(h) + 1)]

(***************************************************************************)
(* Attribute catalog and condition parser                                  *)
(***************************************************************************)
VALID_ATTRIBUTES == {<<"age">>, <<"department">>, <<"salary">>, <<"experience">>}

validate_attribute(attribute) ==
    IF attribute \notin VALID_ATTRIBUTES
    THEN Raise("ValueError", "Invalid attribute", PyStr(attribute))
    ELSE None

\* re.match(r"(\w+)\s*([<>=]+)\s*(\S+)", condition): the three groups, or
\* None.  Greedy matching with backtracking: when nothing but spaces
\* follows the run of operator characters, the run gives back its last
\* character, which then is the \S+ group.
re_match(condition) ==
    LET w == RunLen(condition, 1, "w")
        s1 == RunLen(condition, w + 1, "s")
        o == RunLen(condition, w + s1 + 1, "op")
        s2 == RunLen(condition, w + s1 + o + 1, "s")
        v == RunLen(condition, w + s1 + o + s2 + 1, "S")
        b == w + s1
    IN  IF w = 0 \/ o = 0 THEN None
        ELSE IF v > 0
        THEN PyTuple(<<SubSeq(condition, 1, w),
                     SubSeq(condition, b + 1, b + o),
                     SubSeq(condition, b + o + s2 + 1, b + o + s2 + v)>>)
        ELSE IF o >= 2
        THEN PyTuple(<<SubSeq(condition, 1, w),
                     SubSeq(condition, b + 1, b + o - 1),
                     SubSeq(condition, b + o, b + o)>>)
        ELSE None

parse_condition(h, condition) ==
    LET match == re_match(condition)
    IN  IF match = None
        THEN [heap |-> h, ret |-> Raise("ValueError", "Invalid condition format", PyStr(condition))]
        ELSE LET attribute == match.v[1]
                 operator == match.v[2]
                 value == match.v[3]
                 e == validate_attribute(attribute)
             IN  IF IsRaise(e) THEN [heap |-> h, ret |-> e]
                 ELSE Node(h, OPERAND, None, None,
                           PyTuple(<<PyStr(attribute), PyStr(operator), PyStr(value)>>))

(***************************************************************************)
(* create_rule                                                             *)
(***************************************************************************)
\* print(f"Error creating rule: {e}")
Printed(prefix, e) == [prefix |-> prefix, msg |-> e.msg, arg |-> e.arg]

\* except Exception as e: print(...); return None
Caught(prefix, h, e, out) ==
    [heap |-> h, ret |-> None, out |-> out \o <<Printed(prefix, e)>>]

\* One connective branch, last step first.  Both sides are compiled (left
\* first), then the operator Node is constructed from whatever the two
\* calls returned; the except clause turns an exception of the constructor
\* into a printed line and a None return.
BranchReturn(l, r, n) ==
    IF IsRaise(n.ret) THEN Caught("Error creating rule", n.heap, n.ret, l.out \o r.out)
    ELSE [heap |-> n.heap, ret |-> n.ret, out |-> l.out \o r.out]

BranchNode(l, r, connective) ==
    BranchReturn(l, r, Node(r.heap, OPERATOR, l.ret, r.ret, PyStr(<<connective>>)))

RECURSIVE create_rule(_, _)
BranchRight(l, right_text, connective) ==
    BranchNode(l, create_rule(l.heap, right_text), connective)

Branch(h, text, sep, connective) ==
    BranchRight(create_rule(h, split1(text, sep)[1]), split1(text, sep)[2], connective)

\* Mutant of LeafReturn: the except clause swallows the error without
\* printing it.
LeafReturn_Silent(p) == [heap |-> p.heap, ret |-> IF IsRaise(p.ret) THEN None ELSE p.ret, out |-> <<>>]

\* The else branch: return parse_condition(rule_string), under the same
\* except clause.
LeafReturn(p) ==
    IF IsRaise(p.ret) THEN Caught("Error creating rule", p.heap, p.ret, <<>>)
    ELSE [heap |-> p.heap, ret |-> p.ret, out |-> <<>>]

\* Mutant of create_rule: " OR " is looked for before " AND ".
create_rule_OrFirst(h, rs) ==
    IF Contains(strip(rs), OR_SEP) THEN Branch(h, strip(rs), OR_SEP, "OR")
    ELSE IF Contains(strip(rs), AND_SEP) THEN Branch(h, strip(rs), AND_SEP, "AND")
    ELSE LeafReturn(parse_condition(h, strip(rs)))

create_rule(h, rs) ==
    IF Contains(strip(rs), AND_SEP) THEN Branch(h, strip(rs), AND_SEP, "AND")
    ELSE IF Contains(strip(rs), OR_SEP) THEN Branch(h, strip(rs), OR_SEP, "OR")
    ELSE LeafReturn(parse_condition(h, strip(rs)))

(***************************************************************************)
(* combine_rules                                                           *)
(***************************************************************************)
\* The for loop from its i-th iteration on, with the value of combined_ast
\* and the lines printed so far.  An exception of the Node constructor
\* leaves the loop for the except clause.
RECURSIVE CombineLoop(_, _, _, _, _)
CombineNode(rs, i, out, n) ==
    IF IsRaise(n.ret) THEN Caught("Error combining rules", n.heap, n.ret, out)
    ELSE CombineLoop(n.heap, rs, i + 1, n.ret, out)

\* Mutant of CombineStep: the new rule becomes the left child.
CombineStep_NewRuleLeft(rs, i, combined_ast, out, r) ==
    IF combined_ast = None
    THEN CombineLoop(r.heap, rs, i + 1, r.ret, out \o r.out)
    ELSE CombineNode(rs, i, out \o r.out,
                     Node(r.heap, OPERATOR, r.ret, combined_ast, PyStr(<<"AND">>)))

CombineStep(rs, i, combined_ast, out, r) ==
    IF combined_ast = None
    THEN CombineLoop(r.heap, rs, i + 1, r.ret, out \o r.out)
    ELSE CombineNode(rs, i, out \o r.out,
                     Node(r.heap, OPERATOR, combined_ast, r.ret, PyStr(<<"AND">>)))

CombineLoop(h, rs, i, combined_ast, out) ==
    IF i > Len(rs) THEN [heap |-> h, ret |-> combined_ast, out |-> out]
    ELSE CombineStep(rs, i, combined_ast, out, create_rule(h, rs[i]))

combine_rules(h, rs) == CombineLoop(h, rs, 1, None, <<>>)

(***************************************************************************)
(* str() and float()                                                       *)
(***************************************************************************)
DigitVal(a) == CHOOSE d \in 0..9 : Digits[d + 1] = a

\* str(n) of an int
RECURSIVE IntToStr(_)
IntToStr(n) ==
    IF n < 0 THEN <<"-">> \o IntToStr(0 - n)
    ELSE IF n < 10 THEN <<Digits[n + 1]>>
    ELSE IntToStr(n \div 10) \o <<Digits[(n % 10) + 1]>>

\* str(x)
py_str(x) ==
    CASE x.py = "str" -> x.v
      [] x.py = "int" -> IntToStr(x.v)

\* Value of a run of digits read as a decimal number.
RECURSIVE DigitsVal(_)
DigitsVal(s) ==
    IF s = <<>> THEN 0 ELSE 10 * DigitsVal(SubSeq(s, 1, Len(s) - 1)) + DigitVal(s[Len(s)])

RECURSIVE Pow10(_)
Pow10(k) == IF k = 0 THEN 1 ELSE 10 * Pow10(k - 1)

\* float(s) of a str: an optional "-", digits, an optional "." and digits,
\* with at least one digit.  The value is the fraction num / den (den > 0),
\* or ok = FALSE when float raises ValueError.  (The other spellings float
\* accepts - exponents, "+", "_", inf, nan - need atoms the model has not.)
float(s) ==
    LET neg == s # <<>> /\ s[1] = "-"
        body == IF neg THEN Tail(s) ELSE s
        dots == {i \in 1..Len(body) : body[i] = "."}
        digs == {i \in 1..Len(body) : body[i] \in DigitSet}
    IN  IF Cardinality(dots) > 1 \/ digs = {} \/ Cardinality(dots) + Cardinality(digs) # Len(body)
        THEN [ok |-> FALSE, num |-> 0, den |-> 1]
        ELSE LET frac == IF dots = {} THEN 0 ELSE Len(body) - (CHOOSE i \in dots : TRUE)
                 whole == DigitsVal(SelectSeq(body, LAMBDA a : a # "."))
             IN  [ok |-> TRUE, num |-> IF neg THEN 0 - whole ELSE whole, den |-> Pow10(frac)]

(***************************************************************************)
(* evaluate_rule                                                           *)
(***************************************************************************)
\* user_value > float(value) and user_value < float(value): float(value)
\* is computed first; an int compares with a float by value, a str does
\* not compare with a float at all.
\* Mutant of Compare: the comparisons are not strict.
Compare_NotStrict(user_value, operator, value) ==
    IF value.py # "str" THEN Raise("TypeError", "float() argument", value)
    ELSE LET f == float(value.v)
         IN  IF ~f.ok THEN Raise("ValueError", "could not convert string to float", value)
             ELSE IF user_value.py # "int"
             THEN Raise("TypeError", "not supported between instances", user_value)
             ELSE IF operator = <<">">> THEN PyBool(user_value.v * f.den >= f.num)
             ELSE PyBool(user_value.v * f.den <= f.num)

Compare(user_value, operator, value) ==
    IF value.py # "str" THEN Raise("TypeError", "float() argument", value)
    ELSE LET f == float(value.v)
         IN  IF ~f.ok THEN Raise("ValueError", "could not convert string to float", value)
             ELSE IF user_value.py # "int"
             THEN Raise("TypeError", "not supported between instances", user_value)
             ELSE IF operator = <<">">> THEN PyBool(user_value.v * f.den > f.num)
             ELSE PyBool(user_value.v * f.den < f.num)

RECURSIVE evaluate_rule(_, _, _)
EvalOperand(n, d) ==
    IF ~(n.value.py = "tuple" /\ Len(n.value.v) = 3)
    THEN Raise("ValueError", "cannot unpack", n.value)
    ELSE LET attribute == n.value.v[1]
             operator == n.value.v[2]
             value == n.value.v[3]
         IN  IF attribute.v \notin DOMAIN d
             THEN Raise("ValueError", "Missing attribute in data", attribute)
             ELSE LET user_value == d[attribute.v]
                  IN  IF operator = PyStr(<<">">>) \/ operator = PyStr(<<"<">>)
                      THEN Compare(user_value, operator.v, value)
                      ELSE IF operator = PyStr(<<"=">>)
                      THEN PyBool(py_str(user_value) = py_str(value))
                      ELSE Raise("ValueError", "Invalid operator", operator)

\* Both children are evaluated, left first, before the connective is
\* looked at; an exception of a child ends the call at once.
Connect(value, left_result, right_result) ==
    IF IsRaise(right_result) THEN right_result
    ELSE IF value = PyStr(<<"AND">>)
    THEN (IF Truthy(left_result) THEN right_result ELSE left_result)
    ELSE IF value = PyStr(<<"OR">>)
    THEN (IF Truthy(left_result) THEN left_result ELSE right_result)
    ELSE Raise("ValueError", "Invalid operator", value)

\* Mutant of EvalRight: the right child is skipped when the left child
\* already decides the connective.
EvalRight_ShortCircuit(h, n, d, left_result) ==
    IF IsRaise(left_result) THEN left_result
    ELSE IF n.value = PyStr(<<"AND">>) /\ ~Truthy(left_result) THEN left_result
    ELSE IF n.value = PyStr(<<"OR">>) /\ Truthy(left_result) THEN left_result
    ELSE Connect(n.value, left_result, evaluate_rule(h, n.right, d))

EvalRight(h, n, d, left_result) ==
    IF IsRaise(left_result) THEN left_result
    ELSE Connect(n.value, left_result, evaluate_rule(h, n.right, d))

EvalOperator(h, n, d) == EvalRight(h, n, d, evaluate_rule(h, n.left, d))

evaluate_rule(h, a, d) ==
    IF ~IsRef(a) THEN Raise("AttributeError", "object has no attribute 'type'", a)
    ELSE LET n == h[a.v]
         IN  IF n.type = OPERAND THEN EvalOperand(n, d)
             ELSE IF n.type = OPERATOR THEN EvalOperator(h, n, d)
             ELSE Raise("ValueError", "Invalid AST Node", None)

(***************************************************************************)
(* modify_node and add_sub_expression                                      *)
(***************************************************************************)
\* The node after the two conditional assignments.
Assigned(n, new_type, new_value) ==
    [n EXCEPT !.type = IF Truthy(new_type) THEN new_type ELSE @,
              !.value = IF Truthy(new_value) THEN new_value ELSE @]

\* Mutant of modify_node: the assignments are undone when validate raises.
modify_node_Rollback(h, node, new_type, new_value) ==
    IF IsRaise(validate(Assigned(h[node.v], new_type, new_value)))
    THEN [heap |-> h, ret |-> validate(Assigned(h[node.v], new_type, new_value))]
    ELSE [heap |-> [h EXCEPT ![node.v] = Assigned(@, new_type, new_value)], ret |-> None]

\* The assignments are made in place; validate then returns None or raises.
modify_node(h, node, new_type, new_value) ==
    [heap |-> [h EXCEPT ![node.v] = Assigned(@, new_type, new_value)],
     ret |-> validate(Assigned(h[node.v], new_type, new_value))]

Attached(n, sub_node, position) ==
    IF position = "left" THEN [n EXCEPT !.left = sub_node]
    ELSE IF position = "right" THEN [n EXCEPT !.right = sub_node]
    ELSE n

add_sub_expression(h, parent_node, sub_node, position) ==
    [heap |-> [h EXCEPT ![parent_node.v] = Attached(@, sub_node, position)],
     ret |-> validate(Attached(h[parent_node.v], sub_node, position))]

(***************************************************************************)
(* Inputs of the compiler specification: rule strings made of up to        *)
(* MaxConds condition texts joined by separator texts.                     *)
(***************************************************************************)
MaxConds == 3

CondTexts ==
    { <<"age", SP, ">", SP, "3", "0">>,          \* "age > 30"
      <<"salary", "<", "5">>,                    \* "salary<5"
      <<"unknown_field", SP, ">", SP, "5">>,     \* "unknown_field > 5"
      <<"age">>,                                 \* "age": no operator
      <<>> }                                     \* ""

SepTexts ==
    { AND_SEP,                                   \* " AND "
      OR_SEP,                                    \* " OR "
      <<SP, SP, "AND", SP, SP>>,                 \* "  AND  "
      <<SP, "AND">> }                            \* " AND": not a separator

RECURSIVE RuleTexts(_)
RuleTexts(n) ==
    IF n = 1 THEN CondTexts
    ELSE {c \o s \o r : c \in CondTexts, s \in SepTexts, r \in RuleTexts(n - 1)}

RuleStrings == UNION {RuleTexts(n) : n \in 1..MaxConds}

NoData == [a \in {} |-> None]

(***************************************************************************)
(* Specification of one create_rule call                                   *)
(***************************************************************************)
InitCompile ==
    /\ pc = <<"create_rule">>
    /\ rule_string \in RuleStrings
    /\ rules = <<>>
    /\ data = NoData
    /\ heap = <<>>
    /\ ast = None
    /\ result = None
    /\ stdout = <<>>
    /\ parts = None
    /\ call = None
    /\ edits = 0

\* The driver keeps what a compiling call returned, printed and allocated.
Returned(r) ==
    /\ heap' = r.heap
    /\ ast' = r.ret
    /\ result' = r.ret
    /\ stdout' = stdout \o r.out

CallCreateRule ==
    /\ pc # <<>> /\ Head(pc) = "create_rule"
    /\ Returned(create_rule(heap, rule_string))
    /\ pc' = Tail(pc)
    /\ UNCHANGED <<rule_string, rules, data, parts, call, edits>>

NextCompile == CallCreateRule

SpecCompile == InitCompile /\ [][NextCompile]_vars

(***************************************************************************)
(* Specification of combine_rules followed by evaluate_rule                *)
(***************************************************************************)
MaxRules == 3

RuleSet ==
    { <<"age", SP, ">", SP, "3", "0">>,                              \* "age > 30"
      <<"salary", "<", "5">>,                                        \* "salary<5"
      <<"department", SP, "=", SP, "Sales">>,                        \* "department = Sales"
      <<"age", SP, ">", "=", SP, "3", "0">>,                         \* "age >= 30"
      <<"salary", SP, ">", SP, "abc">>,                              \* "salary > abc"
      <<"unknown_field", SP, ">", SP, "5">>,                         \* "unknown_field > 5"
      <<"age">>,                                                     \* "age"
      <<"age", SP, "<", SP, "3", "0", SP, "OR", SP,
        "department", SP, "=", SP, "Sales">> }                       \* "age < 30 OR department = Sales"

RECURSIVE SeqsUpTo(_, _)
SeqsUpTo(S, n) ==
    IF n = 0 THEN {<<>>}
    ELSE LET shorter == SeqsUpTo(S, n - 1)
         IN  shorter \cup {Append(q, x) : q \in {r \in shorter : Len(r) = n - 1}, x \in S}

\* A record gives each of its attributes one of the listed values.
AgeValues == {PyInt(20), PyInt(35)}
SalaryValues == {PyInt(4), PyInt(60000)}
DepartmentValues == {PyStr(<<"Sales">>)}

ValuesOf(a) ==
    CASE a = <<"age">> -> AgeValues
      [] a = <<"salary">> -> SalaryValues
      [] a = <<"department">> -> DepartmentValues

Records ==
    UNION { {d \in [D -> AgeValues \cup SalaryValues \cup DepartmentValues] :
                \A a \in D : d[a] \in ValuesOf(a)} :
            D \in SUBSET {<<"age">>, <<"salary">>, <<"department">>} }

InitEval ==
    /\ pc = <<"combine_rules", "evaluate_rule">>
    /\ rule_string = <<>>
    /\ rules \in SeqsUpTo(RuleSet, MaxRules)
    /\ data \in Records
    /\ heap = <<>>
    /\ ast = None
    /\ result = None
    /\ stdout = <<>>
    /\ parts = None
    /\ call = None
    /\ edits = 0

CallCombineRules ==
    /\ pc # <<>> /\ Head(pc) = "combine_rules"
    /\ Returned(combine_rules(heap, rules))
    /\ pc' = Tail(pc)
    /\ UNCHANGED <<rule_string, rules, data, parts, call, edits>>

CallEvaluateRule ==
    /\ pc # <<>> /\ Head(pc) = "evaluate_rule"
    /\ result' = evaluate_rule(heap, ast, data)
    /\ pc' = Tail(pc)
    /\ UNCHANGED <<rule_string, rules, data, heap, ast, stdout, parts, call, edits>>

NextEval == CallCombineRules \/ CallEvaluateRule

SpecEval == InitEval /\ [][NextEval]_vars

(***************************************************************************)
(* Specification of create_rule on one comparison followed by              *)
(* evaluate_rule.  The rule string is written from an attribute, an        *)
(* optional space, a run of operator characters and a literal; the record  *)
(* holds "age" or nothing.                                                 *)
(***************************************************************************)
MaxDigit == 3

\* The integers written with one digit 0..MaxDigit, or that digit and a 0.
SmallInts == {s * k * m : s \in {1, -1}, k \in 0..MaxDigit, m \in {1, 10}}

\* The decimal numeral of an integer below 100 in absolute value.
Numeral(n) ==
    LET m == IF n < 0 THEN 0 - n ELSE n
        ds == IF m < 10 THEN <<Digits[m + 1]>> ELSE <<Digits[(m \div 10) + 1], Digits[(m % 10) + 1]>>
    IN  IF n < 0 THEN <<"-">> \o ds ELSE ds

\* A literal: its text, whether it is a number, its value in tenths, and
\* whether the text is the plain numeral of an integer.
NumberLiterals ==
    {[text |-> Numeral(n), number |-> TRUE, tenths |-> 10 * n, plain |-> TRUE] : n \in SmallInts}
    \cup {[text |-> Numeral(n) \o <<".", "0">>, number |-> TRUE, tenths |-> 10 * n, plain |-> FALSE] :
             n \in SmallInts}
    \cup {[text |-> Numeral(n) \o <<".", "5">>, number |-> TRUE,
           tenths |-> IF n < 0 THEN 10 * n - 5 ELSE 10 * n + 5, plain |-> FALSE] : n \in SmallInts}

WordLiterals ==
    {[text |-> <<w>>, number |-> FALSE, tenths |-> 0, plain |-> FALSE] : w \in {"Sales", "abc"}}

Literals == NumberLiterals \cup WordLiterals

OperatorRuns == {<<">">>, <<"<">>, <<"=">>, <<">", "=">>, <<"<", "=">>, <<"=", "=">>, <<"=", ">">>, <<"<", ">">>}

CompareAttributes == {<<"age">>, <<"salary">>}

ComparisonParts ==
    [attribute : CompareAttributes, gap : {<<>>, <<SP>>}, operator : OperatorRuns, literal : Literals]

Written(p) == p.attribute \o p.gap \o p.operator \o p.gap \o p.literal.text

AgeRecords ==
    {NoData} \cup {[a \in {<<"age">>} |-> v] :
                      v \in {PyInt(n) : n \in SmallInts} \cup {PyStr(<<"Sales">>), PyStr(<<"3", "0">>)}}

InitCompare ==
    /\ pc = <<"create_rule", "evaluate_rule">>
    /\ parts \in ComparisonParts
    /\ rule_string = Written(parts)
    /\ rules = <<>>
    /\ data \in AgeRecords
    /\ heap = <<>>
    /\ ast = None
    /\ result = None
    /\ stdout = <<>>
    /\ call = None
    /\ edits = 0

NextCompare == CallCreateRule \/ CallEvaluateRule

SpecCompare == InitCompare /\ [][NextCompare]_vars

(***************************************************************************)
(* Specification of the editors: a rule is compiled by create_rule or      *)
(* combine_rules, then up to MaxEdits calls of modify_node and             *)
(* add_sub_expression are made on nodes of the heap.                       *)
(***************************************************************************)
MaxEdits == 2

EditRules ==
    { <<"age", SP, ">", SP, "3", "0">>,                                          \* "age > 30"
      <<"age", SP, ">", SP, "3", "0", SP, "OR", SP, "salary", "<", "5">> }       \* "age > 30 OR salary<5"

EditRuleLists ==
    { <<>>,
      << <<"age", SP, ">", SP, "3", "0">>, <<"salary", "<", "5">> >>,
      << <<"age">>, <<"salary", "<", "5">> >> }

TypeArgs == {None, PyStr(<<>>), OPERATOR, OPERAND, PyStr(<<"bogus">>)}

ValueArgs == {None, PyStr(<<>>), PyTuple(<<PyStr(<<"age">>), PyStr(<<"<">>), PyInt(40)>>)}

Positions == {"left", "right", "middle"}

InitEdit ==
    /\ \/ pc = <<"create_rule">> /\ rule_string \in EditRules /\ rules = <<>>
       \/ pc = <<"combine_rules">> /\ rule_string = <<>> /\ rules \in EditRuleLists
    /\ data = NoData
    /\ heap = <<>>
    /\ ast = None
    /\ result = None
    /\ stdout = <<>>
    /\ parts = None
    /\ call = None
    /\ edits = 0

\* The driver keeps the call, the node as it was before it, and its outcome.
Edited(c, r) ==
    /\ heap' = r.heap
    /\ result' = r.ret
    /\ call' = c
    /\ edits' = edits + 1
    /\ UNCHANGED <<pc, rule_string, rules, data, ast, stdout, parts>>

CallModifyNode ==
    /\ pc = <<>> /\ edits < MaxEdits
    /\ \E node \in 1..Len(heap), new_type \in TypeArgs, new_value \in ValueArgs :
           Edited([op |-> "modify_node", node |-> node, before |-> heap[node],
                   new_type |-> new_type, new_value |-> new_value],
                  modify_node(heap, Ref(node), new_type, new_value))

CallAddSubExpression ==
    /\ pc = <<>> /\ edits < MaxEdits
    /\ \E parent \in 1..Len(heap), sub \in {None} \cup {Ref(i) : i \in 1..Len(heap)},
          position \in Positions :
           Edited([op |-> "add_sub_expression", node |-> parent, before |-> heap[parent],
                   sub_node |-> sub, position |-> position],
                  add_sub_expression(heap, Ref(parent), sub, position))

NextEdit == CallCreateRule \/ CallCombineRules \/ CallModifyNode \/ CallAddSubExpression

SpecEdit == InitEdit /\ [][NextEdit]_vars

(***************************************************************************)
(* Vocabulary of the properties                                            *)
(***************************************************************************)
\* sep occurs in t at position i
Occurs(t, sep, i) ==
    /\ i \in 1..Len(t)
    /\ i + Len(sep) - 1 <= Len(t)
    /\ \A k \in 1..Len(sep) : t[i + k - 1] = sep[k]

HasSep(t, sep) == \E i \in 1..Len(t) : Occurs(t, sep, i)

FirstOcc(t, sep) ==
    CHOOSE i \in 1..Len(t) : Occurs(t, sep, i) /\ \A j \in 1..(i - 1) : ~Occurs(t, sep, j)

Before(t, sep) == SubSeq(t, 1, FirstOcc(t, sep) - 1)
After(t, sep) == SubSeq(t, FirstOcc(t, sep) + Len(sep), Len(t))

\* The leaf condition texts of a rule string, left to right: split on the
\* first " AND " if there is one, else on the first " OR ".
RECURSIVE LeafTexts(_)
LeafTexts(s) ==
    LET t == strip(s)
    IN  IF HasSep(t, AND_SEP) THEN LeafTexts(Before(t, AND_SEP)) \o LeafTexts(After(t, AND_SEP))
        ELSE IF HasSep(t, OR_SEP) THEN LeafTexts(Before(t, OR_SEP)) \o LeafTexts(After(t, OR_SEP))
        ELSE <<t>>

\* The exception parse_condition raises on a leaf text, or None.
LeafError(c) ==
    LET r == parse_condition(<<>>, c).ret IN IF IsRaise(r) THEN r ELSE None

LeafParses(c) == LeafError(c) = None

\* The tree below a reference, as a value (None for no tree).
RECURSIVE TreeOf(_, _)
TreeOf(h, r) ==
    IF ~IsRef(r) THEN [node |-> "none"]
    ELSE LET n == h[r.v]
         IN  [node |-> n.type, value |-> n.value,
              left |-> TreeOf(h, n.left), right |-> TreeOf(h, n.right)]

\* The tree create_rule builds for a text on its own.
Compiled(s) == LET r == create_rule(<<>>, s) IN TreeOf(r.heap, r.ret)

Compiles(s) == create_rule(<<>>, s).ret # None

OpTree(connective, l, r) ==
    [node |-> OPERATOR, value |-> PyStr(<<connective>>), left |-> l, right |-> r]

(***************************************************************************)
(* C2: create_rule never partially succeeds.  After the call, a Node was   *)
(* returned exactly when every leaf condition text of the rule string      *)
(* parses; one failing leaf, at any depth and on either side, makes the    *)
(* whole call return None.                                                 *)
(***************************************************************************)
C2_AllOrNothing ==
    pc = <<>> =>
        LET leaves == LeafTexts(rule_string)
        IN  (ast # None) <=> (\A i \in 1..Len(leaves) : LeafParses(leaves[i]))

\* A rule of three leaves where only the last one (nested on the right of
\* the right child) fails, and the call returned None.
C2_Witness ==
    /\ pc = <<>>
    /\ ast = None
    /\ LET leaves == LeafTexts(rule_string)
       IN  /\ Len(leaves) = 3
           /\ LeafParses(leaves[1])
           /\ LeafParses(leaves[2])
           /\ ~LeafParses(leaves[3])

(***************************************************************************)
(* C3 as stated: a rule whose condition names an attribute outside the     *)
(* catalog makes create_rule hand the invalid-attribute error to its       *)
(* caller (never None in its place).                                       *)
(***************************************************************************)
NamesInvalidAttribute(s) ==
    LET leaves == LeafTexts(s)
    IN  \E i \in 1..Len(leaves) : LeafError(leaves[i]).py = "raise"
                                  /\ LeafError(leaves[i]).msg = "Invalid attribute"

C4_ScanOrderPrecedence ==
    (pc = <<>> /\ ast # None) =>
        LET t == strip(rule_string)
            root == TreeOf(heap, ast)
        IN  IF HasSep(t, AND_SEP)
            THEN root = OpTree("AND", Compiled(Before(t, AND_SEP)), Compiled(After(t, AND_SEP)))
            ELSE IF HasSep(t, OR_SEP)
            THEN root = OpTree("OR", Compiled(Before(t, OR_SEP)), Compiled(After(t, OR_SEP)))
            ELSE root.node = OPERAND

\* A compiled rule in which " OR " is written before " AND ", followed by a
\* second " AND ": the root is AND, its left child the OR, its right child
\* the remaining AND chain.
C4_Witness ==
    /\ pc = <<>>
    /\ ast # None
    /\ LET t == strip(rule_string)
       IN  /\ HasSep(t, AND_SEP)
           /\ HasSep(t, OR_SEP)
           /\ FirstOcc(t, OR_SEP) < FirstOcc(t, AND_SEP)
           /\ heap[ast.v].value = PyStr(<<"AND">>)
           /\ heap[heap[ast.v].left.v].value = PyStr(<<"OR">>)


(***************************************************************************)
(* Vocabulary of the evaluation properties                                 *)
(***************************************************************************)
\* The operand nodes below a reference, left to right.
RECURSIVE Operands(_, _)
Operands(h, r) ==
    IF ~IsRef(r) THEN <<>>
    ELSE IF h[r.v].type = OPERATOR THEN Operands(h, h[r.v].left) \o Operands(h, h[r.v].right)
    ELSE <<r>>

AttributeOf(h, r) == h[r.v].value.v[1].v

\* What evaluating a rule string on its own gives on a record.
EvalAlone(s, d) ==
    LET c == create_rule(<<>>, s) IN evaluate_rule(c.heap, c.ret, d)

\* AND(...AND(AND(t1, t2), t3)..., tn) of the compiled rules 1..n.
RECURSIVE FoldAnd(_, _)
FoldAnd(rs, n) ==
    IF n = 1 THEN Compiled(rs[1])
    ELSE OpTree("AND", FoldAnd(rs, n - 1), Compiled(rs[n]))

Combined == Len(pc) <= 1      \* the compiling call has returned
Evaluated == pc = <<>>        \* evaluate_rule has returned

(***************************************************************************)
(* C1 as stated: combine_rules aborts as a whole.  When at least one rule  *)
(* string of the sequence fails to compile, at any position, combine_rules *)
(* returns no tree.                                                        *)
(***************************************************************************)
C1_CombineAborts ==
    (Combined /\ \E i \in 1..Len(rules) : ~Compiles(rules[i])) => ast = None

(***************************************************************************)
(* C5 as stated: when some comparison operand of the tree names an         *)
(* attribute that the record lacks, evaluate_rule fails with the           *)
(* missing-attribute error.                                                *)
(***************************************************************************)
MissingOperands ==
    LET ops == Operands(heap, ast)
    IN  {i \in 1..Len(ops) : AttributeOf(heap, ops[i]) \notin DOMAIN data}

C5_MissingAttributeError ==
    (Evaluated /\ ast # None /\ MissingOperands # {}) =>
        (IsRaise(result) /\ result.msg = "Missing attribute in data")

(***************************************************************************)
(* C5 amended: when some comparison operand of the tree names an attribute *)
(* that the record lacks, evaluate_rule never returns a boolean: it fails  *)
(* with the error of the leftmost operand whose evaluation fails (children *)
(* are evaluated left before right, with no short-circuit on the value of  *)
(* the left child).  That is the missing-attribute error of the leftmost   *)
(* such operand unless an operand further left fails first (invalid        *)
(* operator, literal that is not a number).                                *)
(***************************************************************************)
C5_LeftmostErrorNoShortCircuit ==
    (Evaluated /\ ast # None /\ MissingOperands # {}) =>
        LET ops == Operands(heap, ast)
            failing == {i \in 1..Len(ops) : IsRaise(evaluate_rule(heap, ops[i], data))}
            first == CHOOSE i \in failing : \A j \in failing : i <= j
            firstMissing == CHOOSE i \in MissingOperands : \A j \in MissingOperands : i <= j
        IN  /\ IsRaise(result)
            /\ result = evaluate_rule(heap, ops[first], data)
            /\ first = firstMissing =>
                   /\ result.msg = "Missing attribute in data"
                   /\ result.arg = PyStr(AttributeOf(heap, ops[firstMissing]))

\* The record lacks the attribute of the right child of an AND whose left
\* child is false on it, and evaluation raised the missing-attribute error.
C5_Witness ==
    /\ Evaluated
    /\ ast # None
    /\ heap[ast.v].type = OPERATOR
    /\ heap[ast.v].value = PyStr(<<"AND">>)
    /\ evaluate_rule(heap, heap[ast.v].left, data) = PyBool(FALSE)
    /\ heap[heap[ast.v].right.v].type = OPERAND
    /\ AttributeOf(heap, heap[ast.v].right) \notin DOMAIN data
    /\ IsRaise(result)
    /\ result.msg = "Missing attribute in data"

(***************************************************************************)
(* C8: combine_rules is the left-to-right AND fold.  For a non-empty       *)
(* sequence of rule strings that each compile, the combined tree is        *)
(* AND(...AND(AND(t1, t2), t3)..., tn) in the given order, and on a record *)
(* on which every rule evaluates without error, evaluating the combined    *)
(* tree gives true exactly when every rule gives true.                     *)
(***************************************************************************)
C8_LeftFoldAnd ==
    (Combined /\ rules # <<>> /\ \A i \in 1..Len(rules) : Compiles(rules[i])) =>
        /\ ast # None
        /\ TreeOf(heap, ast) = FoldAnd(rules, Len(rules))
        /\ (Evaluated /\ \A i \in 1..Len(rules) : ~IsRaise(EvalAlone(rules[i], data))) =>
               result = PyBool(\A i \in 1..Len(rules) : EvalAlone(rules[i], data) = PyBool(TRUE))

\* Three rules that compile and evaluate, the last of them an OR rule, with
\* the combined result false although the last rule is true.
C8_Witness ==
    /\ Evaluated
    /\ Len(rules) = 3
    /\ \A i \in 1..3 : Compiles(rules[i]) /\ ~IsRaise(EvalAlone(rules[i], data))
    /\ EvalAlone(rules[1], data) = PyBool(FALSE)
    /\ EvalAlone(rules[3], data) = PyBool(TRUE)
    /\ HasSep(rules[3], OR_SEP)
    /\ result = PyBool(FALSE)


(***************************************************************************)
(* C10: comparison semantics through compile then evaluate.  For a catalog *)
(* attribute a that the record holds with an integer value v and a numeric *)
(* literal n, "a > n" evaluates to v > n and "a < n" to v < n; "a = s"     *)
(* evaluates to whether the string form of the record's value is exactly   *)
(* the literal text s; a condition whose operator is any other run of      *)
(* <, >, = compiles, and its evaluation fails with the invalid-operator    *)
(* error.                                                                  *)
(***************************************************************************)
\* The string form of the record's value is exactly the literal's text.
SameText(v, lit) ==
    \/ v.py = "int" /\ lit.number /\ lit.plain /\ lit.tenths = 10 * v.v
    \/ v.py = "str" /\ v.v = lit.text

C10_ComparisonSemantics ==
    /\ (Combined /\ parts # None) => ast # None
    /\ (Evaluated /\ parts # None /\ parts.attribute \in DOMAIN data) =>
        LET v == data[parts.attribute]
            lit == parts.literal
        IN  /\ (parts.operator = <<">">> /\ v.py = "int" /\ lit.number) =>
                   result = PyBool(10 * v.v > lit.tenths)
            /\ (parts.operator = <<"<">> /\ v.py = "int" /\ lit.number) =>
                   result = PyBool(10 * v.v < lit.tenths)
            /\ parts.operator = <<"=">> => result = PyBool(SameText(v, lit))
            /\ parts.operator \notin {<<">">>, <<"<">>, <<"=">>} =>
                   /\ IsRaise(result)
                   /\ result.msg = "Invalid operator"
                   /\ result.arg = PyStr(parts.operator)

\* "age = 30.0" on a record with age 30 evaluated to false.
C10_Witness ==
    /\ Evaluated
    /\ parts # None
    /\ parts.attribute = <<"age">>
    /\ parts.operator = <<"=">>
    /\ parts.literal.text = <<"3", "0", ".", "0">>
    /\ data = [a \in {<<"age">>} |-> PyInt(30)]
    /\ result = PyBool(FALSE)


(***************************************************************************)
(* Vocabulary of the editing properties                                    *)
(***************************************************************************)
NodeIds == 1..Len(heap)

\* The children slots of a node that hold a Node.
ChildSlots(i) == {s \in {"left", "right"} : IsRef(heap[i][s])}

\* j is a child of i
IsChild(i, j) == \E s \in ChildSlots(i) : heap[i][s] = Ref(j)

\* The nodes reachable from i through at least one left/right link.
RECURSIVE ReachIn(_, _)
ReachIn(front, k) ==
    IF k = 0 THEN front
    ELSE ReachIn(front \cup {j \in NodeIds : \E i \in front : IsChild(i, j)}, k - 1)

Below(i) == ReachIn({j \in NodeIds : IsChild(i, j)}, Len(heap))

\* The Node invariant of the data model.
WellFormed(n) ==
    /\ n.type \in {OPERATOR, OPERAND}
    /\ n.type = OPERATOR => (n.left # None /\ n.right # None)
    /\ n.type = OPERAND => n.value # None

(***************************************************************************)
(* C6 as stated: add_sub_expression onto a node of type "operand" (which   *)
(* has no children) fails with a validation error for position "left" and  *)
(* for position "right", and afterwards both children of the operand are   *)
(* still absent.                                                           *)
(***************************************************************************)
C6_AttachToOperandFails ==
    (/\ call # None
     /\ call.op = "add_sub_expression"
     /\ call.position \in {"left", "right"}
     /\ IsRef(call.sub_node)
     /\ call.before.type = OPERAND
     /\ call.before.left = None
     /\ call.before.right = None) =>
        /\ IsRaise(result)
        /\ heap[call.node].left = None
        /\ heap[call.node].right = None

(***************************************************************************)
(* C7 as stated: exclusive ownership in every reachable state.  No Node is *)
(* reachable from itself through left/right links, and no Node is the      *)
(* child of two different parents or both children of one parent.          *)
(***************************************************************************)
C7_ExclusiveOwnership ==
    /\ \A i \in NodeIds : i \notin Below(i)
    /\ \A j \in NodeIds :
           Cardinality({<<i, s>> \in NodeIds \X {"left", "right"} : heap[i][s] = Ref(j)}) <= 1

(***************************************************************************)
(* C9 as stated: modify_node overwrites exactly the fields that are        *)
(* supplied (not None), leaves the other field and both children as they   *)
(* were, then re-runs the Node invariant check; when the check fails the   *)
(* caller gets the validation error and the node keeps the written values. *)
(***************************************************************************)
C9_OverwritesSupplied ==
    (call # None /\ call.op = "modify_node") =>
        LET n == heap[call.node]
        IN  /\ n.type = IF call.new_type # None THEN call.new_type ELSE call.before.type
            /\ n.value = IF call.new_value # None THEN call.new_value ELSE call.before.value
            /\ n.left = call.before.left
            /\ n.right = call.before.right
            /\ IsRaise(result) <=> ~WellFormed(n)

(***************************************************************************)
(* C9 amended: modify_node overwrites exactly the fields whose argument is *)
(* truthy - an argument of None, and likewise an empty string or any other *)
(* falsy value, leaves the field as it was - and leaves both children      *)
(* unchanged; it then re-runs the Node invariant check, and when the check *)
(* fails the caller gets the validation error and the node keeps the       *)
(* written (invalid) values: there is no rollback.                         *)
(***************************************************************************)
C9_OverwritesTruthyNoRollback ==
    (call # None /\ call.op = "modify_node") =>
        LET n == heap[call.node]
        IN  /\ n.type = IF Truthy(call.new_type) THEN call.new_type ELSE call.before.type
            /\ n.value = IF Truthy(call.new_value) THEN call.new_value ELSE call.before.value
            /\ n.left = call.before.left
            /\ n.right = call.before.right
            /\ IsRaise(result) <=> ~WellFormed(n)

\* modify_node was given a type that is neither "operator" nor "operand"
\* and no value: the call raised, and the node holds the invalid type while
\* its value is the one it had.
C9_Witness ==
    /\ call # None
    /\ call.op = "modify_node"
    /\ call.new_type = PyStr(<<"bogus">>)
    /\ call.new_value = None
    /\ WellFormed(call.before)
    /\ IsRaise(result)
    /\ heap[call.node].type = PyStr(<<"bogus">>)
    /\ heap[call.node].value = call.before.value


=============================================================================
